---- MODULE Spec2Model ----
(***************************************************************************)
(* Model of the hdomes driver (src/bin/source/hdomes.c): read an 8 bpp     *)
(* image, invert it, apply the h-dome transform with 4-connectivity and    *)
(* write the result.  The driver's main() is modelled statement by         *)
(* statement; the imaging-library calls it makes (pixRead, pixInvert,      *)
(* pixHDome, pixWrite, pixDestroy) are modelled from the design            *)
(* specification, their failures being choices of the environment.         *)
(***************************************************************************)
EXTENDS Integers, Sequences, FiniteSets, TLC

\* ------------------------------------------------------------- bounds
\* Longest h argument (argv[3]) the model enumerates, in characters.
MaxArgLen == 2
\* Largest argc the model enumerates (the driver wants exactly 4).
MaxArgc == 5
\* Largest number of pixels of the enumerated images read by the driver.
MaxDrvPix == 2
\* Largest number of pixels of the enumerated images given to the transform.
MaxPix == 4
\* Length of the one-row strip image used to exercise long propagation.
StripLen == 258

\* ---------------------------------------------------- program constants
\* argc the driver requires: program name, filein, fileout, h.
NeededArgc == 4
\* Bit depth the driver accepts.
GrayDepth == 8
\* Connectivity the driver passes to pixHDome.
Connectivity == 4
\* Largest sample value of an 8 bpp image.
MaxSample == 255
\* Exit status of a failed run, and of a successful one.
ExitFailure == 1

ExitSuccess == 0

\* ------------------------------------------------------------ helpers
Min2(a, b) == IF a <= b THEN a ELSE b

Max2(a, b) == IF a >= b THEN a ELSE b

RECURSIVE MaxOf(_)
MaxOf(S) ==
    LET x == CHOOSE y \in S : TRUE
    IN  IF S = {x} THEN x ELSE Max2(x, MaxOf(S \ {x}))

\* An image: width, height, depth and the row-major samples.
Pix(w, h, d, data) == [w |-> w, h |-> h, d |-> d, data |-> data]

\* The value of a PIX* that holds no image.
NoPix == Pix(0, 0, 0, << >>)

\* ------------------------------------------------------ argument parsing
Digits == {"0", "1"}

Chars == Digits \cup {"-", "x"}

DigitVal(c) == IF c = "1" THEN 1 ELSE 0

\* The value of the leading run of digits of s, continuing from acc.
RECURSIVE DigitRun(_, _)
DigitRun(s, acc) ==
    IF s = << >> \/ Head(s) \notin Digits
    THEN acc
    ELSE DigitRun(Tail(s), 10 * acc + DigitVal(Head(s)))

\* atoi: an optional sign, then the leading digits; what follows is ignored
\* and a string with no leading digits gives 0.
atoi(s) ==
    IF s # << >> /\ Head(s) = "-"
    THEN 0 - DigitRun(Tail(s), 0)
    ELSE DigitRun(s, 0)

\* ------------------------------------------------------- imaging library
\* pixInvert: every sample s becomes 255 - s, in a new image.
pixInvert(p) ==
    Pix(p.w, p.h, p.d, [i \in 1..(p.w * p.h) |-> MaxSample - p.data[i]])

\* The in-bounds neighbours of pixel i (row-major, from 1) of a w x h image.
Neighbours(i, w, h, conn) ==
    LET r == (i - 1) \div w
        c == (i - 1) % w
        four == {<<r - 1, c>>, <<r + 1, c>>, <<r, c - 1>>, <<r, c + 1>>}
        diag == {<<r - 1, c - 1>>, <<r - 1, c + 1>>,
                 <<r + 1, c - 1>>, <<r + 1, c + 1>>}
        offs == IF conn = 4 THEN four ELSE four \cup diag
    IN  {q[1] * w + q[2] + 1 :
           q \in {o \in offs : o[1] >= 0 /\ o[1] < h /\ o[2] >= 0 /\ o[2] < w}}

\* Subtraction saturating at 0.
SubClamp(a, b) == Max2(0, Min2(MaxSample, a - b))

\* Marker seed M0 = I - h, clamped to the sample range.
\* (variant: the operands of the subtraction are exchanged)
Seed_Swapped(I, n, hgt) == [i \in 1..n |-> SubClamp(hgt, I[i])]

Seed(I, n, hgt) == [i \in 1..n |-> SubClamp(I[i], hgt)]

\* One reconstruction step: M(k+1) = min(dilate(Mk), I).
\* (variant: the dilation leaves out the pixel itself)
DilateUnder_NoSelf(M, I, w, h, conn) ==
    [i \in 1..(w * h) |->
        Min2(MaxOf({0} \cup {M[j] : j \in Neighbours(i, w, h, conn)}), I[i])]

DilateUnder(M, I, w, h, conn) ==
    [i \in 1..(w * h) |->
        Min2(MaxOf({M[i]} \cup {M[j] : j \in Neighbours(i, w, h, conn)}), I[i])]

\* Iterate DilateUnder to its fixed point; k counts the steps that changed M.
RECURSIVE Reconstruct(_, _, _, _, _, _)
Reconstruct(M, I, w, h, conn, k) ==
    LET N == DilateUnder(M, I, w, h, conn)
    IN  IF N = M THEN [m |-> M, k |-> k]
        ELSE Reconstruct(N, I, w, h, conn, k + 1)

\* Domes D = I - Minf.
Domes(I, M, n) == [i \in 1..n |-> SubClamp(I[i], M[i])]

\* pixHDome on an 8 bpp image with hgt >= 0.
pixHDome(p, hgt, conn) ==
    LET n == p.w * p.h
        r == Reconstruct(Seed(p.data, n, hgt), p.data, p.w, p.h, conn, 0)
    IN  Pix(p.w, p.h, p.d, Domes(p.data, r.m, n))

\* pixHDome rejects a negative height.
HDomeRejects(hgt) == hgt < 0

NonZero(p) == {i \in 1..(p.w * p.h) : p.data[i] # 0}

\* ------------------------------------------------------------- inputs
\* Sample values the enumerated images are built from.
Vals == {0, 50, 55, 200}

\* Heights given to the transform when it is exercised on its own.
HVals == {-1, 0, 1, 10, 255}

\* All strings over Chars of at most n characters.
Strings(n) == UNION {[1..m -> Chars] : m \in 0..n}

\* All images of depth d with at most n pixels over Vals.
Images(n, d) ==
    UNION {UNION {{Pix(w, hh, d, data) : data \in [1..(w * hh) -> Vals]} :
                    hh \in 1..(n \div w)} : w \in 1..n}

\* 4x4, a 3x3 plateau of 200 with its corner at (r0, c0), background 50.
Plateau(r0, c0) ==
    {r * 4 + c + 1 : r \in r0..(r0 + 2), c \in c0..(c0 + 2)}

Scenario(r0, c0) ==
    Pix(4, 4, GrayDepth,
        [i \in 1..16 |-> IF i \in Plateau(r0, c0) THEN 200 ELSE 50])

Scenarios == {Scenario(r0, c0) : r0 \in {0, 1}, c0 \in {0, 1}}

\* One row, a single higher sample at the left end.
Strip == Pix(StripLen, 1, GrayDepth, [i \in 1..StripLen |-> IF i = 1 THEN 55 ELSE 50])

\* Inputs of a depth the driver does not accept.
OtherDepthImages ==
    {Pix(1, 1, 24, <<0>>), Pix(2, 1, 24, <<0, 0>>), Pix(1, 1, 1, <<0>>)}

DrvImages == Images(MaxDrvPix, GrayDepth) \cup Scenarios \cup OtherDepthImages

\* What the input path holds.
Files ==
    {[kind |-> "missing", img |-> NoPix], [kind |-> "corrupt", img |-> NoPix]}
    \cup {[kind |-> "image", img |-> p] : p \in DrvImages}

\* Images given to the transform on its own.
HDImages == Images(MaxPix, GrayDepth) \cup Scenarios \cup {Strip}

\* -------------------------------------------------------------- state
VARIABLES
    pc,        \* where main() stands: Idle, Parsed, Decoded, DepthOk,
               \* Inverted, Reconstructed, Encoded, Done, Failed
    argc,      \* number of arguments, program name included
    hArg,      \* argv[3], a sequence of characters
    h,         \* l_int32 h
    inFile,    \* what filein holds
    ptr,       \* pixs, pixInverted, pixd: "uninit", "null" or "set"
    pix,       \* the image each of them points to
    created,   \* how often an image was allocated into each of them
    released,  \* how often pixDestroy freed the image of each of them
    badFree,   \* pixDestroy was called on an uninitialised pointer
    outFile,   \* fileout: "absent", "partial" or "complete"
    outPix,    \* the image a complete fileout holds
    exitCode,  \* value returned by main(), -1 while it runs
    ok,        \* the steps that succeeded so far
    calls,     \* the library stages called, in order
    diag,      \* the L_ERROR messages emitted
    marker,    \* the marker image of the reconstruction
    k          \* the reconstruction steps that changed the marker

vars ==
    <<pc, argc, hArg, h, inFile, ptr, pix, created, released, badFree,
      outFile, outPix, exitCode, ok, calls, diag, marker, k>>

Bufs == {"pixs", "pixInverted", "pixd"}

AllSteps == {"args", "decode", "depth", "invert", "hdome", "encode"}

Terminal == pc \in {"Done", "Failed"}

Live(b) == created[b] - released[b]

LiveBufs == {b \in Bufs : Live(b) > 0}

\* ----------------------------------------------------------- pixDestroy
\* pixDestroy(&p) for every p of S: frees the image of a set pointer and
\* nulls it, does nothing on a null one.
PtrAfterDestroy(S) ==
    [b \in Bufs |-> IF b \in S /\ ptr[b] = "set" THEN "null" ELSE ptr[b]]

ReleasedAfterDestroy(S) ==
    [b \in Bufs |-> IF b \in S /\ ptr[b] = "set" THEN released[b] + 1 ELSE released[b]]

BadAfterDestroy(S) == badFree \/ \E b \in S : ptr[b] = "uninit"

\* What each branch of main() destroys.
DepthFailFrees == {"pixs"}

InvertFailFrees == {"pixs"}

\* (variant: the decoded image is dropped as soon as the inverted one exists)
InvertOkFrees_Early == {"pixs"}

InvertOkFrees == {}

\* (variant: the inverted image is forgotten when pixHDome fails)
HDomeFailFrees_Leak == {"pixs"}

HDomeFailFrees == {"pixs", "pixInverted"}

HDomeOkFrees == {}

WriteFailFrees == {"pixs", "pixInverted", "pixd"}

CleanupFrees == {"pixs", "pixInverted", "pixd"}

\* The guards of main().
\* (variant: surplus arguments are accepted)
ArgcOk_AtLeast(n) == n >= NeededArgc

ArgcOk(n) == n = NeededArgc

\* (variant: deeper images are accepted)
DepthAccepted_AtLeast(d) == d >= GrayDepth

DepthAccepted(d) == d = GrayDepth

\* The image main() hands to pixHDome.
\* (variant: the image as read is handed over, not the inverted one)
HDomeInput_NotInverted == pix["pixs"]

HDomeInput == pix["pixInverted"]

\* The value main() returns from the failing branch of each step.
\* (variant: a failed write is not reported)
FailureCode_WriteIgnored(step) ==
    IF step = "encode" THEN ExitSuccess ELSE ExitFailure

FailureCode(step) == ExitFailure

\* --------------------------------------------------------------- Init
Init ==
    /\ pc = "Idle"
    /\ argc \in 1..MaxArgc
    /\ hArg \in (IF argc >= NeededArgc THEN Strings(MaxArgLen) ELSE {<< >>})
    /\ h = 0
    /\ inFile \in Files
    /\ ptr = [b \in Bufs |-> "uninit"]
    /\ pix = [b \in Bufs |-> NoPix]
    /\ created = [b \in Bufs |-> 0]
    /\ released = [b \in Bufs |-> 0]
    /\ badFree = FALSE
    /\ outFile = "absent"
    /\ outPix = NoPix
    /\ exitCode = -1
    /\ ok = {}
    /\ calls = << >>
    /\ diag = << >>
    /\ marker = << >>
    /\ k = 0

\* The failing step logs one L_ERROR, destroys the pointers of S and main()
\* returns.
Fail(S, step) ==
    /\ pc' = "Failed"
    /\ exitCode' = FailureCode(step)
    /\ diag' = Append(diag, step)
    /\ released' = ReleasedAfterDestroy(S)
    /\ badFree' = BadAfterDestroy(S)

\* ------------------------------------------------------------ actions
\* if (argc != 4) { L_ERROR; return 1; }
ArgFail ==
    /\ pc = "Idle"
    /\ ~ArgcOk(argc)
    /\ Fail({}, "args")
    /\ UNCHANGED <<argc, hArg, h, inFile, ptr, pix, created, outFile, outPix,
                   ok, calls, marker, k>>

\* filein = argv[1]; fileout = argv[2]; h = atoi(argv[3]);
ParseArgs ==
    /\ pc = "Idle"
    /\ ArgcOk(argc)
    /\ h' = atoi(hArg)
    /\ ok' = ok \cup {"args"}
    /\ pc' = "Parsed"
    /\ UNCHANGED <<argc, hArg, inFile, ptr, pix, created, released, badFree,
                   outFile, outPix, exitCode, calls, diag, marker, k>>

\* pixs = pixRead(filein) returned NULL.
ReadFail ==
    /\ pc = "Parsed"
    /\ inFile.kind # "image"
    /\ calls' = Append(calls, "decode")
    /\ ptr' = [ptr EXCEPT !["pixs"] = "null"]
    /\ Fail({}, "decode")
    /\ UNCHANGED <<argc, hArg, h, inFile, pix, created, outFile, outPix, ok,
                   marker, k>>

\* pixs = pixRead(filein) returned an image.
ReadOk ==
    /\ pc = "Parsed"
    /\ inFile.kind = "image"
    /\ calls' = Append(calls, "decode")
    /\ ptr' = [ptr EXCEPT !["pixs"] = "set"]
    /\ pix' = [pix EXCEPT !["pixs"] = inFile.img]
    /\ created' = [created EXCEPT !["pixs"] = @ + 1]
    /\ ok' = ok \cup {"decode"}
    /\ pc' = "Decoded"
    /\ UNCHANGED <<argc, hArg, h, inFile, released, badFree, outFile, outPix,
                   exitCode, diag, marker, k>>

\* if (pixGetDepth(pixs) != 8) { L_ERROR; pixDestroy(&pixs); return 1; }
DepthFail ==
    /\ pc = "Decoded"
    /\ ~DepthAccepted(pix["pixs"].d)
    /\ ptr' = PtrAfterDestroy(DepthFailFrees)
    /\ Fail(DepthFailFrees, "depth")
    /\ UNCHANGED <<argc, hArg, h, inFile, pix, created, outFile, outPix, ok,
                   calls, marker, k>>

DepthPass ==
    /\ pc = "Decoded"
    /\ DepthAccepted(pix["pixs"].d)
    /\ ok' = ok \cup {"depth"}
    /\ pc' = "DepthOk"
    /\ UNCHANGED <<argc, hArg, h, inFile, ptr, pix, created, released, badFree,
                   outFile, outPix, exitCode, calls, diag, marker, k>>

\* pixInverted = pixInvert(NULL, pixs) returned NULL.
InvertFail ==
    /\ pc = "DepthOk"
    /\ calls' = Append(calls, "invert")
    /\ ptr' = [PtrAfterDestroy(InvertFailFrees) EXCEPT !["pixInverted"] = "null"]
    /\ Fail(InvertFailFrees, "invert")
    /\ UNCHANGED <<argc, hArg, h, inFile, pix, created, outFile, outPix, ok,
                   marker, k>>

\* pixInverted = pixInvert(NULL, pixs) returned a new image.
InvertOk ==
    /\ pc = "DepthOk"
    /\ calls' = Append(calls, "invert")
    /\ ptr' = [PtrAfterDestroy(InvertOkFrees) EXCEPT !["pixInverted"] = "set"]
    /\ released' = ReleasedAfterDestroy(InvertOkFrees)
    /\ badFree' = BadAfterDestroy(InvertOkFrees)
    /\ pix' = [pix EXCEPT !["pixInverted"] = pixInvert(pix["pixs"])]
    /\ created' = [created EXCEPT !["pixInverted"] = @ + 1]
    /\ ok' = ok \cup {"invert"}
    /\ pc' = "Inverted"
    /\ UNCHANGED <<argc, hArg, h, inFile, outFile, outPix, exitCode, diag,
                   marker, k>>

\* pixd = pixHDome(pixInverted, h, 4) returned NULL: the height was
\* rejected, or the library failed.
HDomeFail ==
    /\ pc = "Inverted"
    /\ calls' = Append(calls, "hdome")
    /\ ptr' = [PtrAfterDestroy(HDomeFailFrees) EXCEPT !["pixd"] = "null"]
    /\ Fail(HDomeFailFrees, "hdome")
    /\ UNCHANGED <<argc, hArg, h, inFile, pix, created, outFile, outPix, ok,
                   marker, k>>

\* pixd = pixHDome(pixInverted, h, 4) returned the domes.
HDomeOk ==
    /\ pc = "Inverted"
    /\ ~HDomeRejects(h)
    /\ calls' = Append(calls, "hdome")
    /\ LET I == HDomeInput
           n == I.w * I.h
           r == Reconstruct(Seed(I.data, n, h), I.data, I.w, I.h, Connectivity, 0)
       IN  /\ marker' = r.m
           /\ k' = r.k
           /\ pix' = [pix EXCEPT !["pixd"] = Pix(I.w, I.h, I.d, Domes(I.data, r.m, n))]
    /\ ptr' = [PtrAfterDestroy(HDomeOkFrees) EXCEPT !["pixd"] = "set"]
    /\ released' = ReleasedAfterDestroy(HDomeOkFrees)
    /\ badFree' = BadAfterDestroy(HDomeOkFrees)
    /\ created' = [created EXCEPT !["pixd"] = @ + 1]
    /\ ok' = ok \cup {"hdome"}
    /\ pc' = "Reconstructed"
    /\ UNCHANGED <<argc, hArg, h, inFile, outFile, outPix, exitCode, diag>>

\* pixWrite(fileout, pixd, IFF_PNG) returned non-zero: the file could not
\* be opened, or it was opened and the write into it failed.  main() does
\* not remove fileout.
WriteFail ==
    /\ pc = "Reconstructed"
    /\ calls' = Append(calls, "encode")
    /\ outFile' \in {"absent", "partial"}
    /\ ptr' = PtrAfterDestroy(WriteFailFrees)
    /\ Fail(WriteFailFrees, "encode")
    /\ UNCHANGED <<argc, hArg, h, inFile, pix, created, outPix, ok, marker, k>>

\* pixWrite(fileout, pixd, IFF_PNG) returned 0.
WriteOk ==
    /\ pc = "Reconstructed"
    /\ calls' = Append(calls, "encode")
    /\ outFile' = "complete"
    /\ outPix' = pix["pixd"]
    /\ ok' = ok \cup {"encode"}
    /\ pc' = "Encoded"
    /\ UNCHANGED <<argc, hArg, h, inFile, ptr, pix, created, released, badFree,
                   exitCode, diag, marker, k>>

\* pixDestroy(&pixs); pixDestroy(&pixInverted); pixDestroy(&pixd); return 0;
Cleanup ==
    /\ pc = "Encoded"
    /\ ptr' = PtrAfterDestroy(CleanupFrees)
    /\ released' = ReleasedAfterDestroy(CleanupFrees)
    /\ badFree' = BadAfterDestroy(CleanupFrees)
    /\ exitCode' = ExitSuccess
    /\ pc' = "Done"
    /\ UNCHANGED <<argc, hArg, h, inFile, pix, created, outFile, outPix, ok,
                   calls, diag, marker, k>>

Next ==
    \/ ArgFail
    \/ ParseArgs
    \/ ReadFail
    \/ ReadOk
    \/ DepthFail
    \/ DepthPass
    \/ InvertFail
    \/ InvertOk
    \/ HDomeFail
    \/ HDomeOk
    \/ WriteFail
    \/ WriteOk
    \/ Cleanup

Spec == Init /\ [][Next]_vars

\* ------------------------------------------- the transform on its own
\* pixHDome(pixInverted, h, 4) step by step, on any 8 bpp image and height:
\* hd_call, hd_iter (the marker is being grown), hd_done, hd_fail.
InitHD ==
    /\ pc = "hd_call"
    /\ argc = NeededArgc
    /\ hArg = << >>
    /\ h \in HVals
    /\ inFile = [kind |-> "missing", img |-> NoPix]
    /\ ptr = [b \in Bufs |-> IF b = "pixInverted" THEN "set" ELSE "uninit"]
    /\ \E I \in HDImages : pix = [b \in Bufs |-> IF b = "pixInverted" THEN I ELSE NoPix]
    /\ created = [b \in Bufs |-> IF b = "pixInverted" THEN 1 ELSE 0]
    /\ released = [b \in Bufs |-> 0]
    /\ badFree = FALSE
    /\ outFile = "absent"
    /\ outPix = NoPix
    /\ exitCode = -1
    /\ ok = {}
    /\ calls = << >>
    /\ diag = << >>
    /\ marker = << >>
    /\ k = 0

HDKeep ==
    UNCHANGED <<argc, hArg, h, inFile, created, released, badFree, outFile,
                outPix, exitCode, ok, calls, diag>>

\* The height is negative: no image is returned.
HDReject ==
    /\ pc = "hd_call"
    /\ HDomeRejects(h)
    /\ pc' = "hd_fail"
    /\ ptr' = [ptr EXCEPT !["pixd"] = "null"]
    /\ UNCHANGED <<pix, marker, k>>
    /\ HDKeep

\* M0 = I - h.
HDSeed ==
    /\ pc = "hd_call"
    /\ ~HDomeRejects(h)
    /\ marker' = Seed(HDomeInput.data, HDomeInput.w * HDomeInput.h, h)
    /\ k' = 0
    /\ pc' = "hd_iter"
    /\ UNCHANGED <<ptr, pix>>
    /\ HDKeep

\* M(k+1) = min(dilate(Mk), I), while it differs from Mk.
HDStep ==
    /\ pc = "hd_iter"
    /\ LET I == HDomeInput
           N == DilateUnder(marker, I.data, I.w, I.h, Connectivity)
       IN  /\ N # marker
           /\ marker' = N
    /\ k' = k + 1
    /\ UNCHANGED <<pc, ptr, pix>>
    /\ HDKeep

\* M(k+1) = Mk: D = I - Mk is returned.
HDFinish ==
    /\ pc = "hd_iter"
    /\ LET I == HDomeInput
           N == DilateUnder(marker, I.data, I.w, I.h, Connectivity)
       IN  /\ N = marker
           /\ pix' = [pix EXCEPT !["pixd"] =
                        Pix(I.w, I.h, I.d, Domes(I.data, marker, I.w * I.h))]
    /\ ptr' = [ptr EXCEPT !["pixd"] = "set"]
    /\ pc' = "hd_done"
    /\ UNCHANGED <<marker, k>>
    /\ HDKeep

NextHD ==
    \/ HDReject
    \/ HDSeed
    \/ HDStep
    \/ HDFinish

SpecHD == InitHD /\ [][NextHD]_vars

\* =============================================================== claims
StageOrder == <<"decode", "invert", "hdome", "encode">>

IsPrefix(s, t) == Len(s) <= Len(t) /\ \A i \in 1..Len(s) : s[i] = t[i]

Called(stage) == \E i \in 1..Len(calls) : calls[i] = stage

NoneCreated == \A b \in Bufs : created[b] = 0

\* C1: main() returns 0 exactly when the argument count check, decode, the
\* depth check, invert, h-dome and encode all succeeded, returns 1 when any
\* of them failed, and returns nothing else.
C1_ExitCode ==
    /\ exitCode \in {-1, ExitSuccess, ExitFailure}
    /\ Terminal <=> exitCode # -1
    /\ Terminal => (exitCode = ExitSuccess <=> ok = AllSteps)
    /\ Terminal /\ ok # AllSteps => exitCode = ExitFailure
    /\ pc = "Failed" => ok # AllSteps

C1_Witness == pc = "Failed" /\ ok = AllSteps \ {"encode"} /\ exitCode = ExitFailure

\* C2: with a wrong number of arguments the run fails with exit code 1 and
\* never decodes, never encodes and never creates a buffer.
C2_WrongArgc ==
    argc # NeededArgc =>
        /\ pc \in {"Idle", "Failed"}
        /\ calls = << >>
        /\ outFile = "absent"
        /\ NoneCreated
        /\ Terminal => exitCode = ExitFailure

C2_Witness == argc = NeededArgc - 1 /\ pc = "Failed" /\ exitCode = ExitFailure

\* s is a base-10 integer: an optional sign and at least one digit, only.
IsInteger(s) ==
    LET body == IF s # << >> /\ Head(s) = "-" THEN Tail(s) ELSE s
    IN  /\ body # << >>
        /\ \A i \in 1..Len(body) : body[i] \in Digits

\* C3: when argv[3] is not a base-10 integer the run reports an error and
\* ends with exit code 1 without decoding, transforming or writing.
C3_UnparsableRejected ==
    (argc = NeededArgc /\ ~IsInteger(hArg)) =>
        /\ pc \in {"Idle", "Failed"}
        /\ calls = << >>
        /\ outFile = "absent"
        /\ Terminal => (exitCode = ExitFailure /\ diag # << >>)

\* C4: a decoded input whose depth is not 8 is rejected before processing:
\* no invert, no h-dome, no encode, no output file, the decoded buffer is
\* released and the exit code is 1.
C4_DepthRejected ==
    ("decode" \in ok /\ inFile.img.d # GrayDepth) =>
        /\ pc \in {"Decoded", "Failed"}
        /\ calls = <<"decode">>
        /\ outFile = "absent"
        /\ created = [b \in Bufs |-> IF b = "pixs" THEN 1 ELSE 0]
        /\ Terminal => (exitCode = ExitFailure /\ Live("pixs") = 0
                        /\ released["pixs"] = 1)

C4_Witness ==
    /\ pc = "Failed"
    /\ "decode" \in ok
    /\ inFile.img.d = 24
    /\ released["pixs"] = 1

\* C5: the stages are called only in the order decode, invert, h-dome,
\* encode, each at most once and after the previous one succeeded, and a
\* run that ends in failure leaves no output file, not even a partial one,
\* the run whose encode fails included.
C5_OrderedNoPartial ==
    /\ IsPrefix(calls, StageOrder)
    /\ \A i \in 2..Len(calls) : StageOrder[i - 1] \in ok
    /\ pc = "Failed" => outFile = "absent"

\* C6 (as stated): for the 4x4 image with a 3x3 plateau of 200 on 50 and
\* h = 10, the inverted image is 205 / 55 and the output is non-zero on the
\* plateau and zero on the background.
C6_PlateauMarked ==
    \A r0 \in {0, 1}, c0 \in {0, 1} :
        ("hdome" \in ok /\ inFile.img = Scenario(r0, c0) /\ h = 10) =>
            \A i \in 1..16 :
                /\ pix["pixInverted"].data[i] = (IF i \in Plateau(r0, c0) THEN 55 ELSE 205)
                /\ i \in Plateau(r0, c0) => pix["pixd"].data[i] # 0
                /\ i \notin Plateau(r0, c0) => pix["pixd"].data[i] = 0

\* C6 (amended): for that image and h = 10, the inverted image is 205 / 55
\* and the output is zero on every pixel of the plateau and non-zero (10)
\* on every background pixel.
C6_BackgroundMarked ==
    \A r0 \in {0, 1}, c0 \in {0, 1} :
        ("hdome" \in ok /\ inFile.img = Scenario(r0, c0) /\ h = 10) =>
            \A i \in 1..16 :
                /\ pix["pixInverted"].data[i] = (IF i \in Plateau(r0, c0) THEN 55 ELSE 205)
                /\ i \in Plateau(r0, c0) => pix["pixd"].data[i] = 0
                /\ i \notin Plateau(r0, c0) => pix["pixd"].data[i] = 10

C6_Witness ==
    /\ pc = "Done"
    /\ inFile.img = Scenario(0, 0)
    /\ h = 10
    /\ outPix = pix["pixd"]

\* C9 (as stated): a buffer is released as soon as the next stage's buffer
\* exists, so at most two buffers are live and the decoded, inverted and
\* reconstructed buffers are never all held together.
C9_AtMostTwoLive ==
    /\ Cardinality(LiveBufs) <= 2
    /\ Live("pixInverted") > 0 => Live("pixs") = 0
    /\ Live("pixd") > 0 => Live("pixInverted") = 0

\* C9 (amended): the driver keeps every buffer it created until the run
\* ends: while main() runs no created buffer has been released, so the
\* decoded and inverted buffers are live together after invert and all
\* three buffers are live together after h-dome; never more than three.
C9_HeldUntilExit ==
    /\ Cardinality(LiveBufs) <= 3
    /\ ~Terminal => \A b \in Bufs : released[b] = 0
    /\ pc = "Inverted" => LiveBufs = {"pixs", "pixInverted"}
    /\ pc \in {"Reconstructed", "Encoded"} => LiveBufs = Bufs

C9_Witness == pc = "Reconstructed" /\ LiveBufs = Bufs

\* C10: at Done and at Failed every buffer created in the run has been
\* released exactly once; no buffer is released twice and none that was
\* never created is released.
C10_ReleasedOnce ==
    /\ ~badFree
    /\ \A b \in Bufs : released[b] <= created[b] /\ created[b] <= 1
    /\ \A b \in Bufs : (ptr[b] = "set") <=> (Live(b) = 1)
    /\ Terminal => released = created

C10_Witness ==
    /\ pc = "Failed"
    /\ calls = <<"decode", "invert", "hdome">>
    /\ released = [b \in Bufs |-> IF b = "pixd" THEN 0 ELSE 1]

\* ---------------------------------------------- claims on the transform
LeqAll(A, B, n) == \A i \in 1..n : A[i] <= B[i]

Iterating == pc \in {"hd_iter", "hd_done"}

C8_AtMost255 ==
    Iterating =>
        /\ k <= MaxSample
        /\ LeqAll(marker, HDomeInput.data, HDomeInput.w * HDomeInput.h)

C8_Bounded ==
    Iterating =>
        /\ k <= HDomeInput.w * HDomeInput.h - 1
        /\ LeqAll(marker, HDomeInput.data, HDomeInput.w * HDomeInput.h)

C8_NonDecreasing ==
    (pc = "hd_iter" /\ pc' = "hd_iter") =>
        LeqAll(marker, marker', HDomeInput.w * HDomeInput.h)

\* C8 (amended): the marker reaches its fixed point after at most
\* width * height - 1 steps, it is bounded above by I at every step and
\* no step lowers a sample of it.
C8_Termination == [](C8_Bounded) /\ [][C8_NonDecreasing]_vars

C8_Witness == pc = "hd_done" /\ k > MaxSample

====
